---- MODULE Spec2Model ----
(***************************************************************************)
(* Model of the Nostr debug console: the relay list kept by Debug          *)
(* (pages/Debug.tsx), the handlers of RelayDebugger and RequestBuilder     *)
(* (components/debug/RequestBuilder.tsx) and the classifier of             *)
(* StreamViewer.                                                           *)
(*                                                                         *)
(* Every handler runs to completion (one JavaScript task) and React        *)
(* re-renders between two tasks, so a handler invoked from the page reads  *)
(* the current relay list, while the four callbacks installed on a         *)
(* WebSocket by connectRelay keep the relay list of the render in which    *)
(* connectRelay ran (the closure's `relays`).                              *)
(***************************************************************************)
EXTENDS Integers, Sequences, FiniteSets, TLC

VARIABLES
  relays,         \* Debug: useState<RelayConnection[]>, the rendered relay list
  sockets,        \* every WebSocket constructed so far; its index is its identity
  messages,       \* Debug: useState<StreamMessage[]>, newest first
  toast,          \* what the last handler reported through toast(), or NoToast
  wire            \* the frames the last handler passed to WebSocket.send

vars == <<relays, sockets, messages, toast, wire>>

----------------------------------------------------------------------------
(* Bounds of the model *)

\* WebSocket objects constructed in one behaviour
MaxSockets == 2
\* records in the stream
MaxMessages == 2

----------------------------------------------------------------------------
(* Text: a string is the sequence of its characters *)

WSS == <<"w", "s", "s", ":", "/", "/">>
WS == <<"w", "s", ":", "/", "/">>
ALL == <<"a", "l", "l">>

\* startsWith that compares the lengths and forgets the characters
StartsWith_LengthOnly(str, prefix) == Len(str) >= Len(prefix)

\* String.prototype.startsWith
StartsWith(str, prefix) ==
  /\ Len(str) >= Len(prefix)
  /\ SubSeq(str, 1, Len(prefix)) = prefix

RECURSIVE TrimStart(_)
TrimStart(str) ==
  IF str # <<>> /\ Head(str) = " " THEN TrimStart(Tail(str)) ELSE str

RECURSIVE TrimEnd(_)
TrimEnd(str) ==
  IF str # <<>> /\ str[Len(str)] = " "
  THEN TrimEnd(SubSeq(str, 1, Len(str) - 1))
  ELSE str

\* String.prototype.trim
Trim(str) == TrimEnd(TrimStart(str))

\* What the operator types into the relay URL box before pressing Add
NewRelayUrlInputs ==
  { <<>>,
    <<" ">>,
    WSS \o <<"a">>,
    <<" ">> \o WSS \o <<"a", " ">>,
    WS \o <<"b">>,
    <<"h", "t", "t", "p", ":", "/", "/", "a">>,
    <<"w", "s", "s", ":", "a">>,
    <<"a">> }

\* The URLs a relay of the list can have
RelayUrls ==
  { Trim(t) : t \in { i \in NewRelayUrlInputs :
        StartsWith(Trim(i), WSS) \/ StartsWith(Trim(i), WS) } }

----------------------------------------------------------------------------
(* JSON values: t is the JavaScript type, s the text of a string or number, *)
(* k the keys of an object, e the elements of an array or the values of an  *)
(* object, in key order.                                                    *)

JNull == [t |-> "null", s |-> "", k |-> <<>>, e |-> <<>>]
JStr(s) == [t |-> "string", s |-> s, k |-> <<>>, e |-> <<>>]
JNum(s) == [t |-> "number", s |-> s, k |-> <<>>, e |-> <<>>]
JBool(b) == [t |-> "boolean", s |-> IF b THEN "true" ELSE "false", k |-> <<>>, e |-> <<>>]
JArr(e) == [t |-> "array", s |-> "", k |-> <<>>, e |-> e]
JObj(k, e) == [t |-> "object", s |-> "", k |-> k, e |-> e]

\* 'key' in obj
HasKey(obj, key) == \E i \in 1..Len(obj.k) : obj.k[i] = key

\* obj[key], for a key the object has
Field(obj, key) == obj.e[CHOOSE i \in 1..Len(obj.k) : obj.k[i] = key]

\* JavaScript truthiness, as used by `data[0] || 'UNKNOWN'`
Truthy(v) ==
  CASE v.t = "null" -> FALSE
    [] v.t = "string" -> v.s # ""
    [] v.t = "number" -> v.s # "0"
    [] v.t = "boolean" -> v.s = "true"
    [] OTHER -> TRUE

REQ_TEMPLATE == "[\"REQ\", \"sub1\", {\"kinds\": [1], \"limit\": 10}]"
REQ_COMPACT == "[\"REQ\",\"sub1\",{\"kinds\":[1],\"limit\":10}]"
CLOSE_TEMPLATE == "[\"CLOSE\", \"sub1\"]"
CLOSE_COMPACT == "[\"CLOSE\",\"sub1\"]"
CUSTOM_OBJECT == "{\"type\": \"AUTH\"}"
OBJECT_COMPACT == "{\"type\":\"AUTH\"}"
CUSTOM_NUMBER == "42"
CUSTOM_TEXT == "\"REQ\""
CUSTOM_GARBAGE == "REQ sub1"
FRAME_EOSE == "[\"EOSE\",\"sub1\"]"
FRAME_GARBAGE == "<html>"

\* JSON.parse on the texts of the model: ok is FALSE where it throws
JSONparse(text) ==
  CASE text \in {REQ_TEMPLATE, REQ_COMPACT} ->
         [ok |-> TRUE,
          value |-> JArr(<<JStr("REQ"), JStr("sub1"),
                           JObj(<<"kinds", "limit">>,
                                <<JArr(<<JNum("1")>>), JNum("10")>>)>>)]
    [] text \in {CLOSE_TEMPLATE, CLOSE_COMPACT} ->
         [ok |-> TRUE, value |-> JArr(<<JStr("CLOSE"), JStr("sub1")>>)]
    [] text \in {CUSTOM_OBJECT, OBJECT_COMPACT} ->
         [ok |-> TRUE, value |-> JObj(<<"type">>, <<JStr("AUTH")>>)]
    [] text = CUSTOM_NUMBER -> [ok |-> TRUE, value |-> JNum("42")]
    [] text = CUSTOM_TEXT -> [ok |-> TRUE, value |-> JStr("REQ")]
    [] text = FRAME_EOSE ->
         [ok |-> TRUE, value |-> JArr(<<JStr("EOSE"), JStr("sub1")>>)]
    [] OTHER -> [ok |-> FALSE, value |-> JNull]

\* JSON.stringify on the values sendMessage can have parsed: the text without
\* the blanks of the message box
JSONstringify(value) ==
  CASE value = JSONparse(REQ_TEMPLATE).value -> REQ_COMPACT
    [] value = JSONparse(CLOSE_TEMPLATE).value -> CLOSE_COMPACT
    [] value = JSONparse(FRAME_EOSE).value -> FRAME_EOSE
    [] value = JSONparse(CUSTOM_OBJECT).value -> OBJECT_COMPACT
    [] value = JSONparse(CUSTOM_NUMBER).value -> CUSTOM_NUMBER
    [] value = JSONparse(CUSTOM_TEXT).value -> CUSTOM_TEXT

\* What the operator can have in the message box when pressing Send
MessageContents == {CLOSE_TEMPLATE, CUSTOM_OBJECT, CUSTOM_GARBAGE}

\* The text frames a relay can deliver
FrameTexts == {FRAME_EOSE, FRAME_GARBAGE}

\* a classifier that returns the first element of an array as it is
getMessageType_NoFallback(data) ==
  IF data.t = "array"
  THEN IF Len(data.e) > 0 THEN data.e[1] ELSE JStr("UNKNOWN")
  ELSE IF data.t = "object" /\ HasKey(data, "type") /\ Field(data, "type").t = "string"
       THEN Field(data, "type")
       ELSE JStr("UNKNOWN")

\* a test that takes every value for an array
IsArray_Anything(v) == TRUE

\* Array.isArray
IsArray(v) == v.t = "array"

\* StreamViewer: getMessageType
getMessageType(data) ==
  IF data.t = "array"
  THEN IF Len(data.e) > 0 /\ Truthy(data.e[1]) THEN data.e[1] ELSE JStr("UNKNOWN")
  ELSE IF data.t = "object" /\ HasKey(data, "type") /\ Field(data, "type").t = "string"
       THEN Field(data, "type")
       ELSE JStr("UNKNOWN")

----------------------------------------------------------------------------
(* The relay list *)

NoToast == [title |-> "", count |-> 0]
Toast(title) == [title |-> title, count |-> 0]

\* interface RelayConnection; ws is the index of the WebSocket, 0 for null
RelayConnection(url, connected, ws) == [url |-> url, connected |-> connected, ws |-> ws]

Urls(rs) == { rs[i].url : i \in 1..Len(rs) }

\* some() that looks at the first relay only
HasRelay_FirstOnly(rs, url) == rs # <<>> /\ rs[1].url = url

\* relays.some((r) => r.url === url)
HasRelay(rs, url) == \E i \in 1..Len(rs) : rs[i].url = url

\* relays.find((r) => r.url === url), for a url the list has
FindRelay(rs, url) == rs[CHOOSE i \in 1..Len(rs) : rs[i].url = url /\ \A j \in 1..(i - 1) : rs[j].url # url]

\* relays.filter((r) => r.url !== url)
WithoutRelay(rs, url) == SelectSeq(rs, LAMBDA r : r.url # url)

\* relays.map((r) => r.url === url ? { ...r, ws } : r)
WithSocket(rs, url, ws) ==
  [i \in 1..Len(rs) |-> IF rs[i].url = url THEN [rs[i] EXCEPT !.ws = ws] ELSE rs[i]]

\* relays.map((r) => r.url === url ? { ...r, connected: true, ws } : r)
WithConnected(rs, url, ws) ==
  [i \in 1..Len(rs) |->
     IF rs[i].url = url THEN [rs[i] EXCEPT !.connected = TRUE, !.ws = ws] ELSE rs[i]]

\* the close callback forgetting to drop the handle
WithDisconnected_KeepsHandle(rs, url) ==
  [i \in 1..Len(rs) |->
     IF rs[i].url = url THEN [rs[i] EXCEPT !.connected = FALSE] ELSE rs[i]]

\* relays.map((r) => r.url === url ? { ...r, connected: false, ws: null } : r)
WithDisconnected(rs, url) ==
  [i \in 1..Len(rs) |->
     IF rs[i].url = url THEN [rs[i] EXCEPT !.connected = FALSE, !.ws = 0] ELSE rs[i]]

----------------------------------------------------------------------------
(* WebSocket objects *)

\* new WebSocket(url) throws a SyntaxError for a URL without a host
CtorThrows(url) == url \in {WSS, WS}

\* new WebSocket(url) as connectRelay sets it up: the callbacks close over the
\* relay list of the render in which connectRelay runs
NewWebSocket(url, rs) ==
  [url |-> url, readyState |-> "CONNECTING", relays |-> rs, closePending |-> FALSE]

\* A socket whose close event has fired: no callback of it runs any more, and
\* the relay list its callbacks closed over is garbage
Closed(sock) == [sock EXCEPT !.readyState = "CLOSED", !.closePending = FALSE, !.relays = <<>>]

\* WebSocket.close(): starts the closing handshake of a socket that is
\* connecting or open, and does nothing to one that is closing or closed
Close(socks, ws) ==
  IF socks[ws].readyState \in {"CONNECTING", "OPEN"}
  THEN [socks EXCEPT ![ws].readyState = "CLOSING"]
  ELSE socks

\* a handler that forgets to close the handle
CloseRelayWs_Forgotten(socks, rs, url) == socks

\* if (relay?.ws) relay.ws.close()
CloseRelayWs(socks, rs, url) ==
  IF HasRelay(rs, url) /\ FindRelay(rs, url).ws # 0
  THEN Close(socks, FindRelay(rs, url).ws)
  ELSE socks

\* A failing connection fires error and then close in one task: nothing else
\* runs between the two callbacks
Idle == \A s \in 1..Len(sockets) : ~sockets[s].closePending

----------------------------------------------------------------------------
(* The stream *)

\* interface StreamMessage. The id and the timestamp of a record are drawn from
\* the clock and from Math.random(): they tell two records apart and decide
\* nothing, and the position in the stream stands for them here.
StreamMessage(relay, type, data) ==
  [relay |-> relay, type |-> type, data |-> data]

\* addMessage putting the record at the end
addMessage_Appends(prev, relay, type, data) ==
  Append(prev, [relay |-> relay, type |-> type, data |-> data])

\* an update that replaces the stream by the new record
addMessage_Overwrites(prev, relay, type, data) ==
  <<StreamMessage(relay, type, data)>>

\* Debug.addMessage: setMessages((prev) => [message, ...prev])
addMessage(prev, relay, type, data) ==
  <<StreamMessage(relay, type, data)>> \o prev

ConnectionRecord(status) ==
  JObj(<<"type", "status">>, <<JStr("connection"), JStr(status)>>)
ErrorRecord == JObj(<<"type", "error">>, <<JStr("error"), JStr("[object Event]")>>)
ParseErrorRecord(raw) == JObj(<<"type", "raw">>, <<JStr("parse_error"), JStr(raw)>>)

\* The stream has room for n more records
CanDispatchWithin(n, room) == Len(messages) + n <= room
CanDispatch(n) == CanDispatchWithin(n, MaxMessages)

----------------------------------------------------------------------------
Init ==
  /\ relays = <<>>
  /\ sockets = <<>>
  /\ messages = <<>>
  /\ toast = NoToast
  /\ wire = <<>>

\* RelayDebugger.addRelay, with newRelayUrl = text
AddRelay(text) ==
  LET url == Trim(text) IN
  /\ Idle
  /\ IF url = <<>>
     THEN /\ toast' = Toast("Invalid URL")
          /\ UNCHANGED relays
     ELSE IF ~StartsWith(url, WSS) /\ ~StartsWith(url, WS)
     THEN /\ toast' = Toast("Invalid URL")
          /\ UNCHANGED relays
     ELSE IF HasRelay(relays, url)
     THEN /\ toast' = Toast("Duplicate relay")
          /\ UNCHANGED relays
     ELSE /\ toast' = NoToast
          /\ relays' = Append(relays, RelayConnection(url, FALSE, 0))
  /\ wire' = <<>>
  /\ UNCHANGED <<sockets, messages>>

\* RelayDebugger.removeRelay; the Remove button exists for the relays of the list
RemoveRelay(url) ==
  /\ Idle
  /\ HasRelay(relays, url)
  /\ sockets' = CloseRelayWs(sockets, relays, url)
  /\ relays' = WithoutRelay(relays, url)
  /\ toast' = NoToast
  /\ wire' = <<>>
  /\ UNCHANGED <<messages>>

\* RelayDebugger.connectRelay; the Connect button exists for the relays of the
\* list that are not shown as connected
ConnectRelayWithin(url, limit) ==
  /\ Idle
  /\ HasRelay(relays, url)
  /\ ~FindRelay(relays, url).connected
  /\ CtorThrows(url) \/ Len(sockets) < limit
  /\ LET closed == CloseRelayWs(sockets, relays, url)
         ws == Len(sockets) + 1
     IN IF CtorThrows(url)
        THEN /\ sockets' = closed
             /\ toast' = Toast("Connection failed")
             /\ UNCHANGED relays
        ELSE /\ sockets' = Append(closed, NewWebSocket(url, relays))
             /\ relays' = WithSocket(relays, url, ws)
             /\ toast' = NoToast
  /\ wire' = <<>>
  /\ UNCHANGED <<messages>>

ConnectRelay(url) == ConnectRelayWithin(url, MaxSockets)

\* RelayDebugger.disconnectRelay; the Disconnect button exists for the relays
\* of the list that are shown as connected
DisconnectRelay(url) ==
  /\ Idle
  /\ HasRelay(relays, url)
  /\ FindRelay(relays, url).connected
  /\ sockets' = CloseRelayWs(sockets, relays, url)
  /\ toast' = NoToast
  /\ wire' = <<>>
  /\ UNCHANGED <<relays, messages>>

\* ws.onopen of socket ws
TransportOpenWithin(ws, room) ==
  /\ Idle
  /\ sockets[ws].readyState = "CONNECTING"
  /\ CanDispatchWithin(1, room)
  /\ sockets' = [sockets EXCEPT ![ws].readyState = "OPEN"]
  /\ relays' = WithConnected(sockets[ws].relays, sockets[ws].url, ws)
  /\ toast' = Toast("Connected")
  /\ messages' = addMessage(messages, sockets[ws].url, "received", ConnectionRecord("connected"))
  /\ wire' = <<>>

\* a close event that comes only when the relay closes the connection
TransportCloseWithin_OnlyRemote(ws, room) ==
  /\ \/ Idle /\ sockets[ws].readyState = "OPEN"
     \/ sockets[ws].closePending
  /\ CanDispatchWithin(1, room)
  /\ sockets' = [sockets EXCEPT ![ws] = Closed(sockets[ws])]
  /\ relays' = WithDisconnected(sockets[ws].relays, sockets[ws].url)
  /\ toast' = NoToast
  /\ messages' = addMessage(messages, sockets[ws].url, "received", ConnectionRecord("disconnected"))
  /\ wire' = <<>>

\* ws.onclose of socket ws: after a closing handshake (asked for here or by
\* the relay), or right after the error event of a failed connection
TransportCloseWithin(ws, room) ==
  /\ \/ Idle /\ sockets[ws].readyState \in {"OPEN", "CLOSING"}
     \/ sockets[ws].closePending
  /\ CanDispatchWithin(1, room)
  /\ sockets' = [sockets EXCEPT ![ws] = Closed(sockets[ws])]
  /\ relays' = WithDisconnected(sockets[ws].relays, sockets[ws].url)
  /\ toast' = NoToast
  /\ messages' = addMessage(messages, sockets[ws].url, "received", ConnectionRecord("disconnected"))
  /\ wire' = <<>>

\* ws.onerror of socket ws: the connection failed; the close event follows
TransportErrorWithin(ws, room) ==
  /\ Idle
  /\ sockets[ws].readyState \in {"CONNECTING", "OPEN", "CLOSING"}
  /\ CanDispatchWithin(2, room)
  /\ sockets' = [sockets EXCEPT ![ws].readyState = "CLOSED", ![ws].closePending = TRUE]
  /\ toast' = Toast("Connection error")
  /\ messages' = addMessage(messages, sockets[ws].url, "received", ErrorRecord)
  /\ wire' = <<>>
  /\ UNCHANGED relays

TransportOpen(ws) == TransportOpenWithin(ws, MaxMessages)
TransportClose(ws) == TransportCloseWithin(ws, MaxMessages)
TransportError(ws) == TransportErrorWithin(ws, MaxMessages)

\* a decoder that drops what it cannot parse
Decoded_DropsRaw(text) ==
  IF JSONparse(text).ok THEN JSONparse(text).value ELSE ParseErrorRecord("")

\* ws.onmessage: try { JSON.parse(event.data) } catch { parse_error }
Decoded(text) ==
  IF JSONparse(text).ok THEN JSONparse(text).value ELSE ParseErrorRecord(text)

\* ws.onmessage of socket ws with event.data = text
TransportMessage(ws, text) ==
  /\ Idle
  /\ sockets[ws].readyState = "OPEN"
  /\ CanDispatch(1)
  /\ messages' = addMessage(messages, sockets[ws].url, "received", Decoded(text))
  /\ toast' = NoToast
  /\ wire' = <<>>
  /\ UNCHANGED <<relays, sockets>>

\* ws.onmessage of socket ws with event.data a text that JSON.parse turns
\* into data
TransportFrame(ws, data) ==
  /\ Idle
  /\ sockets[ws].readyState = "OPEN"
  /\ CanDispatch(1)
  /\ messages' = addMessage(messages, sockets[ws].url, "received", data)
  /\ toast' = NoToast
  /\ wire' = <<>>
  /\ UNCHANGED <<relays, sockets>>

\* StreamViewer: the badge of every record of the stream, as rendered
Badges(msgs) == [i \in 1..Len(msgs) |-> getMessageType(msgs[i].data)]

\* the readyState test against the wrong constant
Sendable_WrongState(socks, relay) ==
  relay.ws # 0 /\ socks[relay.ws].readyState = "CONNECTING"

\* relay.ws && relay.ws.readyState === WebSocket.OPEN: ws.send() is reached,
\* and on an open socket it does not throw
Sendable(socks, relay) == relay.ws # 0 /\ socks[relay.ws].readyState = "OPEN"

\* a loop that gives up at the first target it cannot send to
RECURSIVE SendEach_StopsAtFailure(_, _, _, _)
SendEach_StopsAtFailure(prev, socks, targets, message) ==
  IF targets = <<>> \/ ~Sendable(socks, Head(targets))
  THEN prev
  ELSE SendEach_StopsAtFailure(addMessage(prev, Head(targets).url, "sent", message),
                               socks, Tail(targets), message)

\* targetRelays.forEach: onSend(relay.url, 'sent', message) for every target
\* that was sent to, in the order of the list
RECURSIVE SendEach(_, _, _, _)
SendEach(prev, socks, targets, message) ==
  IF targets = <<>>
  THEN prev
  ELSE SendEach(IF Sendable(socks, Head(targets))
                THEN addMessage(prev, Head(targets).url, "sent", message)
                ELSE prev,
                socks, Tail(targets), message)

\* targetRelays.forEach: relay.ws.send(JSON.stringify(message)) for every
\* target that was sent to, in the order of the list
RECURSIVE WsSendEach(_, _, _)
WsSendEach(socks, targets, message) ==
  IF targets = <<>>
  THEN <<>>
  ELSE (IF Sendable(socks, Head(targets))
        THEN <<[ws |-> Head(targets).ws, data |-> JSONstringify(message)]>>
        ELSE <<>>)
       \o WsSendEach(socks, Tail(targets), message)

\* successCount after the forEach
SuccessCount(socks, targets) == Len(SelectSeq(targets, LAMBDA r : Sendable(socks, r)))

\* a filter that lets every relay through
ConnectedRelays_Everyone(rs) == rs

\* relays.filter((r) => r.connected)
ConnectedRelays(rs) == SelectSeq(rs, LAMBDA r : r.connected)

\* a selection that forgets the selected relay
TargetRelays_IgnoresSelection(rs, selected) == ConnectedRelays(rs)

\* selectedRelay === 'all' ? connectedRelays : connectedRelays.filter(...)
TargetRelays(rs, selected) ==
  IF selected = ALL
  THEN ConnectedRelays(rs)
  ELSE SelectSeq(ConnectedRelays(rs), LAMBDA r : r.url = selected)

\* RequestBuilder.sendMessage with selectedRelay = selected and
\* messageContent = content
SendMessage(selected, content) ==
  LET parsed == JSONparse(content)
      targetRelays == TargetRelays(relays, selected)
      successCount == SuccessCount(sockets, targetRelays)
  IN
  /\ Idle
  /\ IF ConnectedRelays(relays) = <<>>
     THEN /\ toast' = Toast("No connected relays")
          /\ UNCHANGED messages
          /\ wire' = <<>>
     ELSE IF ~parsed.ok
     THEN /\ toast' = Toast("Invalid JSON")
          /\ UNCHANGED messages
          /\ wire' = <<>>
     ELSE IF ~IsArray(parsed.value)
     THEN /\ toast' = Toast("Invalid message")
          /\ UNCHANGED messages
          /\ wire' = <<>>
     ELSE IF targetRelays = <<>>
     THEN /\ toast' = Toast("No target relay")
          /\ UNCHANGED messages
          /\ wire' = <<>>
     ELSE /\ CanDispatch(successCount)
          /\ messages' = SendEach(messages, sockets, targetRelays, parsed.value)
          /\ wire' = WsSendEach(sockets, targetRelays, parsed.value)
          /\ toast' = IF successCount > 0
                      THEN [title |-> "Message sent", count |-> successCount]
                      ELSE NoToast
  /\ UNCHANGED <<relays, sockets>>

\* Debug.clearMessages
ClearMessages ==
  /\ Idle
  /\ messages' = <<>>
  /\ toast' = NoToast
  /\ wire' = <<>>
  /\ UNCHANGED <<relays, sockets>>

Next ==
  \/ \E text \in NewRelayUrlInputs : AddRelay(text)
  \/ \E url \in RelayUrls : RemoveRelay(url)
  \/ \E url \in RelayUrls : ConnectRelay(url)
  \/ \E url \in RelayUrls : DisconnectRelay(url)
  \/ \E ws \in 1..Len(sockets) : TransportOpen(ws)
  \/ \E ws \in 1..Len(sockets) : TransportClose(ws)
  \/ \E ws \in 1..Len(sockets) : TransportError(ws)
  \/ \E ws \in 1..Len(sockets), text \in FrameTexts : TransportMessage(ws, text)
  \/ \E selected \in {ALL} \cup RelayUrls, content \in MessageContents :
       SendMessage(selected, content)
  \/ ClearMessages

Spec == Init /\ [][Next]_vars

\* One relay, with every handler and callback of the page
SingleRelayInputs ==
  { <<>>,
    WSS \o <<"a">>,
    <<" ">> \o WSS \o <<"a", " ">>,
    <<"h", "t", "t", "p", ":", "/", "/", "a">> }

NextSingleRelay ==
  \/ \E text \in SingleRelayInputs : AddRelay(text)
  \/ \E url \in RelayUrls : RemoveRelay(url)
  \/ \E url \in RelayUrls : ConnectRelay(url)
  \/ \E url \in RelayUrls : DisconnectRelay(url)
  \/ \E ws \in 1..Len(sockets) : TransportOpen(ws)
  \/ \E ws \in 1..Len(sockets) : TransportClose(ws)
  \/ \E ws \in 1..Len(sockets) : TransportError(ws)
  \/ \E ws \in 1..Len(sockets), text \in FrameTexts : TransportMessage(ws, text)
  \/ \E selected \in {ALL} \cup RelayUrls, content \in MessageContents :
       SendMessage(selected, content)
  \/ ClearMessages

SpecSingleRelay == Init /\ [][NextSingleRelay]_vars

\* One relay and its connections, with room for one more socket
NextReconnect ==
  \/ \E text \in SingleRelayInputs : AddRelay(text)
  \/ \E url \in RelayUrls : RemoveRelay(url)
  \/ \E url \in RelayUrls : ConnectRelayWithin(url, MaxSockets + 1)
  \/ \E url \in RelayUrls : DisconnectRelay(url)
  \/ \E ws \in 1..Len(sockets) : TransportOpen(ws)
  \/ \E ws \in 1..Len(sockets) : TransportClose(ws)
  \/ \E ws \in 1..Len(sockets) : TransportError(ws)
  \/ ClearMessages

SpecReconnect == Init /\ [][NextReconnect]_vars

\* One relay, with every handler and callback of the page, and a message box
\* that can also hold the text of a number and the text of a string
SendContents == MessageContents \cup {CUSTOM_NUMBER, CUSTOM_TEXT}

NextSend ==
  \/ \E text \in SingleRelayInputs : AddRelay(text)
  \/ \E url \in RelayUrls : RemoveRelay(url)
  \/ \E url \in RelayUrls : ConnectRelay(url)
  \/ \E url \in RelayUrls : DisconnectRelay(url)
  \/ \E ws \in 1..Len(sockets) : TransportOpen(ws)
  \/ \E ws \in 1..Len(sockets) : TransportClose(ws)
  \/ \E ws \in 1..Len(sockets) : TransportError(ws)
  \/ \E ws \in 1..Len(sockets), text \in FrameTexts : TransportMessage(ws, text)
  \/ \E selected \in {ALL} \cup RelayUrls, content \in SendContents :
       SendMessage(selected, content)
  \/ ClearMessages

SpecSend == Init /\ [][NextSend]_vars

\* The relay list and the connections, without frames and sends: a socket
\* dispatches at most three records (open, error, close), so that the stream
\* never lacks room and every close event that is due can be delivered
StreamRoom == 3 * MaxSockets

NextLifecycle ==
  \/ \E text \in NewRelayUrlInputs : AddRelay(text)
  \/ \E url \in RelayUrls : RemoveRelay(url)
  \/ \E url \in RelayUrls : ConnectRelay(url)
  \/ \E url \in RelayUrls : DisconnectRelay(url)
  \/ \E ws \in 1..Len(sockets) : TransportOpenWithin(ws, StreamRoom)
  \/ \E ws \in 1..Len(sockets) : TransportCloseWithin(ws, StreamRoom)
  \/ \E ws \in 1..Len(sockets) : TransportErrorWithin(ws, StreamRoom)

\* A socket that has been asked to close, or that has failed, delivers its
\* close event
CloseDelivered ==
  \A ws \in 1..MaxSockets :
    WF_vars(ws <= Len(sockets) /\ TransportCloseWithin(ws, StreamRoom))

SpecLifecycle == Init /\ [][NextLifecycle]_vars /\ CloseDelivered

\* The JSON values a relay's frames can decode to: scalars, arrays and objects
PayloadAtoms ==
  { JNull, JBool(FALSE), JNum("0"), JNum("42"), JStr(""), JStr("REQ"),
    JArr(<<>>), JObj(<<"type">>, <<JStr("connection")>>) }

Payloads ==
  PayloadAtoms
    \cup {JArr(<<a>>) : a \in PayloadAtoms}
    \cup {JObj(<<"type">>, <<a>>) : a \in PayloadAtoms}
    \cup { JObj(<<"kind">>, <<JStr("REQ")>>),
           JArr(<<JStr("REQ"), JStr("sub1"), JObj(<<>>, <<>>)>>),
           JArr(<<JNum("0"), JStr("REQ")>>),
           JArr(<<JBool(TRUE), JStr("REQ")>>) }

\* One relay, its connection, and the frames it delivers while connected
NextClassify ==
  \/ AddRelay(WSS \o <<"a">>)
  \/ \E url \in RelayUrls : ConnectRelay(url)
  \/ \E ws \in 1..Len(sockets) : TransportOpen(ws)
  \/ \E ws \in 1..Len(sockets), data \in Payloads : TransportFrame(ws, data)
  \/ ClearMessages

SpecClassify == Init /\ [][NextClassify]_vars

----------------------------------------------------------------------------
(* Vocabulary of the properties *)

RECURSIVE UpToColon(_)
UpToColon(str) ==
  IF str = <<>> \/ Head(str) = ":"
  THEN <<>>
  ELSE <<Head(str)>> \o UpToColon(Tail(str))

\* A URL has the scheme ws or wss when, blanks around it aside, it reads
\* "ws:" or "wss:" up to its first colon
HasWsScheme(text) ==
  /\ \E i \in 1..Len(Trim(text)) : Trim(text)[i] = ":"
  /\ UpToColon(Trim(text)) \in {<<"w", "s">>, <<"w", "s", "s">>}

ConnectedMessage(url) == StreamMessage(url, "received", ConnectionRecord("connected"))
DisconnectedMessage(url) == StreamMessage(url, "received", ConnectionRecord("disconnected"))

\* The relay of that URL is listed as connected with socket ws as its handle
BoundTo(rs, url, ws) ==
  \E i \in 1..Len(rs) : rs[i].url = url /\ rs[i].connected /\ rs[i].ws = ws

\* The relay of that URL is listed as disconnected without a handle
Unbound(rs, url) ==
  \A i \in 1..Len(rs) : rs[i].url = url => ~rs[i].connected /\ rs[i].ws = 0

\* A transport that is connecting or open and has not been asked to close
Live(ws) == sockets[ws].readyState \in {"CONNECTING", "OPEN"}

\* A transport whose close event has been delivered
Finished(ws) == sockets[ws].readyState = "CLOSED" /\ ~sockets[ws].closePending

\* The position of a URL in a relay list, 0 when absent
Position(rs, url) ==
  IF \E i \in 1..Len(rs) : rs[i].url = url
  THEN CHOOSE i \in 1..Len(rs) : rs[i].url = url
  ELSE 0

\* The records of the stream that report the disconnection of that URL
Disconnections(msgs, url) ==
  Cardinality({i \in 1..Len(msgs) : msgs[i] = DisconnectedMessage(url)})

----------------------------------------------------------------------------
(* C1 *)

E2E_Empty == relays = <<>> /\ sockets = <<>> /\ messages = <<>>

E2E_Added(u) ==
  /\ relays = <<RelayConnection(u, FALSE, 0)>>
  /\ sockets = <<>>
  /\ messages = <<>>

E2E_Connecting(u) ==
  /\ relays = <<RelayConnection(u, FALSE, 1)>>
  /\ sockets = <<[url |-> u, readyState |-> "CONNECTING", closePending |-> FALSE,
                  relays |-> <<RelayConnection(u, FALSE, 0)>>]>>
  /\ messages = <<>>

E2E_Connected(u) ==
  /\ relays = <<RelayConnection(u, TRUE, 1)>>
  /\ sockets = <<[url |-> u, readyState |-> "OPEN", closePending |-> FALSE,
                  relays |-> <<RelayConnection(u, FALSE, 0)>>]>>
  /\ Len(messages) = 1
  /\ messages[1].relay = u
  /\ messages[1].type = "received"
  /\ getMessageType(messages[1].data) = JStr("connection")

E2E_Sent(u) ==
  /\ relays = <<RelayConnection(u, TRUE, 1)>>
  /\ Len(sockets) = 1 /\ sockets[1].readyState = "OPEN"
  /\ Len(messages) = 2
  /\ messages[1].relay = u
  /\ messages[1].type = "sent"
  /\ messages[1].data = JArr(<<JStr("CLOSE"), JStr("sub1")>>)
  /\ getMessageType(messages[1].data) = JStr("CLOSE")
  /\ messages[2].type = "received"
  /\ getMessageType(messages[2].data) = JStr("connection")
  /\ toast = [title |-> "Message sent", count |-> 1]

\* C1: from the empty registry, addRelay(u) with a wss:// URL, connect(u) and
\* the open event of u's transport leave exactly one record in the stream
\* (received, type tag "connection") and u connected; a send to u of
\* ["CLOSE","sub1"] then adds exactly one record (sent, type tag "CLOSE") and
\* reports a success count of 1.
C1_EndToEnd ==
  [][\A u \in {x \in RelayUrls : StartsWith(x, WSS)} :
       /\ (E2E_Empty /\ AddRelay(u)) => E2E_Added(u)'
       /\ (E2E_Added(u) /\ ConnectRelay(u)) => E2E_Connecting(u)'
       /\ (E2E_Connecting(u) /\ TransportOpen(1)) => E2E_Connected(u)'
       /\ (E2E_Connected(u) /\ SendMessage(u, CLOSE_TEMPLATE)) => E2E_Sent(u)'
    ]_vars

C1_Witness == \E u \in RelayUrls : StartsWith(u, WSS) /\ E2E_Sent(u)

----------------------------------------------------------------------------
(* C2 *)

\* C2: addRelay with a URL that has neither the scheme ws nor wss (the empty
\* string included) reports "Invalid URL" and changes neither the relay list,
\* nor a relay's state or handle, nor a socket, nor the stream.
C2_InvalidUrlRejected ==
  [][\A text \in {t \in NewRelayUrlInputs : ~HasWsScheme(t)} :
       AddRelay(text) =>
          /\ toast'.title = "Invalid URL"
          /\ UNCHANGED <<relays, sockets, messages>>
    ]_vars

C2_Witness ==
  /\ toast.title = "Invalid URL"
  /\ Len(relays) = 2
  /\ \E i \in 1..Len(relays) : relays[i].connected /\ relays[i].ws # 0
  /\ messages # <<>>

----------------------------------------------------------------------------
(* C3 *)

NoDuplicateUrls ==
  \A i, j \in 1..Len(relays) : relays[i].url = relays[j].url => i = j

\* C3: in every reachable state no two relays of the list share a URL, and
\* addRelay with a URL the list already has reports "Duplicate relay" and
\* leaves the relay list as it is.
C3_UniqueUrls ==
  /\ []NoDuplicateUrls
  /\ [][\A text \in NewRelayUrlInputs :
          (Trim(text) \in Urls(relays) /\ AddRelay(text)) =>
             /\ toast'.title = "Duplicate relay"
             /\ UNCHANGED relays
       ]_vars

C3_Witness ==
  /\ toast.title = "Duplicate relay"
  /\ Len(relays) = 2
  /\ Len(sockets) > 0

----------------------------------------------------------------------------
(* C4 *)

\* C4: a relay of the list stays in the list, at its place among the other
\* relays that stay, in every step that is not removeRelay of its URL.
C4_ListedUntilRemoved ==
  [][\A u \in Urls(relays) :
       ~RemoveRelay(u) =>
          /\ u \in Urls(relays')
          /\ \A v \in Urls(relays) \cap Urls(relays') :
               (Position(relays, u) < Position(relays, v))
                 <=> (Position(relays', u) < Position(relays', v))
    ]_vars

----------------------------------------------------------------------------
(* C5 *)

\* C5: a URL that is absent from the list (removeRelay has removed it, or it
\* was never added) enters the list only by a successful addRelay of that URL.
C5_AbsentUntilAdded ==
  [][\A u \in RelayUrls :
       (u \notin Urls(relays) /\ u \in Urls(relays')) =>
          \E text \in NewRelayUrlInputs : Trim(text) = u /\ AddRelay(text)
    ]_vars

----------------------------------------------------------------------------
(* C6 *)

\* C6 as stated: when removeRelay takes a connected relay off the list, the
\* record of its disconnection is in the stream by then, added exactly once.
C6_DisconnectRecordBeforeRemoval ==
  [][\A u \in Urls(relays) :
       (FindRelay(relays, u).connected /\ RemoveRelay(u)) =>
          messages' = <<DisconnectedMessage(u)>> \o messages
    ]_vars

\* C6 as amended: removeRelay of a connected relay whose handle is open takes
\* the relay off the list at once, adds no record and asks the handle to
\* close; the record of the disconnection is added afterwards, exactly once
\* for that transport: by its close event, and by no other step.
C6_DisconnectRecordAfterRemoval ==
  [][/\ \A u \in Urls(relays) :
          LET ws == FindRelay(relays, u).ws IN
          (FindRelay(relays, u).connected /\ ws # 0 /\ RemoveRelay(u)) =>
             /\ u \notin Urls(relays')
             /\ messages' = messages
             /\ sockets[ws].readyState = "OPEN" => sockets'[ws].readyState = "CLOSING"
     /\ \A ws \in 1..Len(sockets) :
          /\ TransportClose(ws) =>
               /\ ~Finished(ws) /\ Finished(ws)'
               /\ messages' = <<DisconnectedMessage(sockets[ws].url)>> \o messages
          /\ Finished(ws) => Finished(ws)'
     /\ \A u \in RelayUrls :
          Disconnections(messages', u) > Disconnections(messages, u) =>
             /\ Disconnections(messages', u) = Disconnections(messages, u) + 1
             /\ \E ws \in 1..Len(sockets) :
                  sockets[ws].url = u /\ ~Finished(ws) /\ Finished(ws)'
    ]_vars

\* removeRelay has just taken a connected relay off the list: its handle is
\* closing and the stream holds no record of the disconnection yet
C6_Witness ==
  \E u \in RelayUrls :
    /\ u \notin Urls(relays)
    /\ Len(sockets) = 1
    /\ sockets[1].url = u
    /\ sockets[1].readyState = "CLOSING"
    /\ sockets[1].relays = <<RelayConnection(u, FALSE, 0)>>
    /\ messages = <<ConnectedMessage(u)>>

----------------------------------------------------------------------------
(* C7 *)

\* C7: in every reachable state a relay URL has at most one transport that is
\* connecting or open and has not been asked to close.
C7_AtMostOneLiveTransport ==
  \A u \in RelayUrls :
    Cardinality({ws \in 1..Len(sockets) : sockets[ws].url = u /\ Live(ws)}) <= 1

----------------------------------------------------------------------------
(* C8 *)

\* C8: the open event of a transport of relay u leaves u connected with that
\* transport as its handle and adds exactly one record (received, connection
\* connected, u); u then stays connected with that handle in every step that
\* is neither the close event of that transport nor removeRelay(u).
C8_ConnectedUntilClosed ==
  [][\A ws \in 1..Len(sockets) :
       LET u == sockets[ws].url IN
       /\ TransportOpen(ws) =>
            /\ BoundTo(relays', u, ws)
            /\ messages' = <<ConnectedMessage(u)>> \o messages
       /\ (BoundTo(relays, u, ws) /\ ~TransportClose(ws) /\ ~RemoveRelay(u)) =>
            BoundTo(relays', u, ws)
    ]_vars

----------------------------------------------------------------------------
(* C9 *)

\* C9: the close event of a transport of relay u, whether the close was asked
\* for by disconnect or removeRelay or came from the relay, leaves u, where
\* the list has it, disconnected without a handle, keeps a listed u listed,
\* and adds exactly one record (received, connection disconnected, u).
C9_CloseDisconnects ==
  [][\A ws \in 1..Len(sockets) :
       LET u == sockets[ws].url IN
       TransportClose(ws) =>
          /\ Unbound(relays', u)
          /\ u \in Urls(relays) => u \in Urls(relays')
          /\ messages' = <<DisconnectedMessage(u)>> \o messages
    ]_vars

C9_Witness ==
  \E ws \in 1..Len(sockets) :
    LET u == sockets[ws].url IN
    /\ Finished(ws)
    /\ u \in Urls(relays)
    /\ Unbound(relays, u)
    /\ Len(messages) = 2
    /\ messages[1] = DisconnectedMessage(u)
    /\ messages[2] = ConnectedMessage(u)

----------------------------------------------------------------------------
(* C10 *)

\* The stream after a step is some new records in front of the stream before
IsPrefixed(new, old) ==
  /\ Len(new) >= Len(old)
  /\ SubSeq(new, Len(new) - Len(old) + 1, Len(new)) = old

\* C10: the stream is newest first. Every step other than a clear leaves the
\* previous stream unchanged behind the records it adds; an event of a
\* transport adds exactly one record, of that transport's relay, at the front,
\* so that two records of one relay lie in the reverse of the order of their
\* events; and a send puts the record of a later target in front of that of
\* an earlier one.
C10_NewestFirst ==
  [][/\ ClearMessages \/ IsPrefixed(messages', messages)
     /\ \A ws \in 1..Len(sockets) :
          (\/ TransportOpen(ws) \/ TransportClose(ws) \/ TransportError(ws)
           \/ \E text \in FrameTexts : TransportMessage(ws, text)) =>
             /\ Len(messages') = Len(messages) + 1
             /\ Tail(messages') = messages
             /\ Head(messages').relay = sockets[ws].url
             /\ Head(messages').type = "received"
     /\ \A ws \in 1..Len(sockets) :
          /\ TransportOpen(ws) => Head(messages') = ConnectedMessage(sockets[ws].url)
          /\ TransportClose(ws) => Head(messages') = DisconnectedMessage(sockets[ws].url)
     /\ \A selected \in {ALL} \cup RelayUrls, content \in MessageContents :
          SendMessage(selected, content) =>
             \A i, j \in 1..(Len(messages') - Len(messages)) :
                i < j => Position(relays, messages'[i].relay) > Position(relays, messages'[j].relay)
    ]_vars

C10_Witness ==
  \E u \in RelayUrls :
    /\ Len(messages) = 2
    /\ messages[1] = DisconnectedMessage(u)
    /\ messages[2] = ConnectedMessage(u)

----------------------------------------------------------------------------
(* C11 *)

\* The relay of that URL is listed as connected
Connected(rs, url) == \E i \in 1..Len(rs) : rs[i].url = url /\ rs[i].connected

\* The message box holds the text of a JSON array
ArrayContents ==
  {c \in MessageContents : JSONparse(c).ok /\ JSONparse(c).value.t = "array"}

\* C11: a send to "all" while no relay of the list is connected reports
\* "No connected relays", passes no frame to any socket, and leaves the
\* stream, the sockets and the relay list as they are, whatever the message
\* box holds.
C11_NoConnectedRelays ==
  [][\A content \in MessageContents :
       ((\A i \in 1..Len(relays) : ~relays[i].connected) /\ SendMessage(ALL, content)) =>
          /\ toast'.title = "No connected relays"
          /\ wire' = <<>>
          /\ UNCHANGED <<messages, sockets, relays>>
    ]_vars

\* the report, with relays listed and a socket still connecting
C11_Witness ==
  /\ toast.title = "No connected relays"
  /\ wire = <<>>
  /\ Len(relays) = 2
  /\ \E ws \in 1..Len(sockets) : sockets[ws].readyState = "CONNECTING"

----------------------------------------------------------------------------
(* C12 *)

\* C12: a send of a JSON array whose selector is a URL that is not connected
\* (not in the list, or listed as disconnected with or without a connecting
\* socket), while another relay is connected, reports "No target relay",
\* passes no frame to any socket, the other relay's included, and leaves the
\* stream, the sockets and the relay list as they are.
C12_TargetNotConnected ==
  [][\A u \in RelayUrls, content \in ArrayContents :
       (/\ ~Connected(relays, u)
        /\ \E v \in RelayUrls \ {u} : Connected(relays, v)
        /\ SendMessage(u, content)) =>
          /\ toast'.title = "No target relay"
          /\ wire' = <<>>
          /\ UNCHANGED <<messages, sockets, relays>>
    ]_vars

\* the report, while a connected relay has its socket open
C12_Witness ==
  /\ toast.title = "No target relay"
  /\ wire = <<>>
  /\ \E i \in 1..Len(relays) :
       /\ relays[i].connected
       /\ relays[i].ws # 0
       /\ sockets[relays[i].ws].readyState = "OPEN"

----------------------------------------------------------------------------
(* C13 *)

\* The resolved targets of a send, as places of the relay list
Targets(selected) ==
  {i \in 1..Len(relays) :
     relays[i].connected /\ (selected = ALL \/ relays[i].url = selected)}

\* The handle of the relay at place i is open: it accepts data
Accepts(i) == relays[i].ws # 0 /\ sockets[relays[i].ws].readyState = "OPEN"

\* C13: a send of a JSON array that has a resolved target reports every
\* target it cannot transmit to; in particular, when it can transmit to none
\* of its targets it reports the failure: it shows a toast, and the toast is
\* not the one of a send that reached a relay.
C13_FailuresReported ==
  [][\A selected \in {ALL} \cup RelayUrls, content \in ArrayContents :
       (/\ Targets(selected) # {}
        /\ \A i \in Targets(selected) : ~Accepts(i)
        /\ SendMessage(selected, content)) =>
          /\ toast' # NoToast
          /\ toast'.title # "Message sent"
    ]_vars

----------------------------------------------------------------------------
(* C14 *)

\* C14: a send of a JSON array that has a resolved target transmits to
\* exactly the targets whose handle is open: with n such targets it passes n
\* frames to sockets, one to the handle of each of them, and puts n records
\* in front of the stream, one for each of them (sent, that target's URL, the
\* parsed array as payload); the other targets take nothing away from these.
\* The count it reports ("Message sent") is n whenever n is positive, and it
\* reports no success when n is 0.
C14_SuccessCount ==
  [][\A selected \in {ALL} \cup RelayUrls, content \in ArrayContents :
       (Targets(selected) # {} /\ SendMessage(selected, content)) =>
          LET S == {i \in Targets(selected) : Accepts(i)}
              n == Cardinality(S)
          IN
          /\ Len(messages') = Len(messages) + n
          /\ SubSeq(messages', n + 1, Len(messages')) = messages
          /\ \A i \in S :
               Cardinality({k \in 1..n :
                 messages'[k] = StreamMessage(relays[i].url, "sent",
                                              JSONparse(content).value)}) = 1
          /\ Len(wire') = n
          /\ \A i \in S :
               Cardinality({k \in 1..n : wire'[k].ws = relays[i].ws}) = 1
          /\ n > 0 => toast' = [title |-> "Message sent", count |-> n]
          /\ n = 0 => toast'.title # "Message sent"
    ]_vars

\* a send to two targets, the first with a closing handle, has reached the
\* second one only
C14_Witness ==
  /\ Len(relays) = 2
  /\ relays[1].connected /\ relays[1].ws # 0
  /\ sockets[relays[1].ws].readyState = "CLOSING"
  /\ relays[2].connected /\ relays[2].ws # 0
  /\ sockets[relays[2].ws].readyState = "OPEN"
  /\ toast = [title |-> "Message sent", count |-> 1]
  /\ Len(wire) = 1 /\ wire[1].ws = relays[2].ws
  /\ messages # <<>>
  /\ Head(messages).type = "sent" /\ Head(messages).relay = relays[2].url

----------------------------------------------------------------------------
(* C15 *)

UNKNOWN == JStr("UNKNOWN")

\* A value without content: null or the empty text
IsEmpty(v) == v = JNull \/ v = JStr("")

\* The rule of C15 as stated: an element is non-empty when it has content
ClassifyNonEmpty(p) ==
  IF p.t = "array"
  THEN IF Len(p.e) >= 1 /\ ~IsEmpty(p.e[1]) THEN p.e[1] ELSE UNKNOWN
  ELSE IF p.t = "object"
          /\ (\E i \in 1..Len(p.k) : p.k[i] = "type" /\ p.e[i].t = "string")
       THEN p.e[CHOOSE i \in 1..Len(p.k) : p.k[i] = "type"]
       ELSE UNKNOWN

\* false, zero, null and the empty text: what JavaScript treats as false
IsFalsy(v) == v \in {JNull, JBool(FALSE), JNum("0"), JStr("")}

\* The rule of C15 as amended: an element counts when JavaScript treats it
\* as true
ClassifyTruthy(p) ==
  IF p.t = "array"
  THEN IF Len(p.e) >= 1 /\ ~IsFalsy(p.e[1]) THEN p.e[1] ELSE UNKNOWN
  ELSE IF p.t = "object"
          /\ (\E i \in 1..Len(p.k) : p.k[i] = "type" /\ p.e[i].t = "string")
       THEN p.e[CHOOSE i \in 1..Len(p.k) : p.k[i] = "type"]
       ELSE UNKNOWN

\* C15 as stated: the badge of every record of the stream is the first
\* element of its payload when the payload is a sequence whose first element
\* is present and non-empty, the text of its type field when the payload is
\* a keyed structure with a text-valued type, and "UNKNOWN" otherwise.
C15_ClassifyNonEmpty ==
  \A i \in 1..Len(messages) :
    Badges(messages)[i] = ClassifyNonEmpty(messages[i].data)

\* C15 as amended: the same, where a first element counts as present and
\* non-empty when it is none of null, false, the number 0 and the empty text;
\* the four examples of the claim are among the cases.
C15_ClassifyTruthy ==
  /\ \A i \in 1..Len(messages) :
       Badges(messages)[i] = ClassifyTruthy(messages[i].data)
  /\ getMessageType(JArr(<<JStr("REQ"), JStr("sub1"), JObj(<<>>, <<>>)>>)) = JStr("REQ")
  /\ getMessageType(JObj(<<"type">>, <<JStr("connection")>>)) = JStr("connection")
  /\ getMessageType(JNum("42")) = UNKNOWN
  /\ getMessageType(JArr(<<>>)) = UNKNOWN

\* a frame [0] and a frame [false] are in the stream, both shown as UNKNOWN
C15_Witness ==
  /\ Len(messages) = 2
  /\ messages[1].data = JArr(<<JNum("0")>>)
  /\ messages[2].data = JArr(<<JBool(FALSE)>>)
  /\ Badges(messages) = <<UNKNOWN, UNKNOWN>>

----------------------------------------------------------------------------
(* C16 *)

\* The step adds n records to the stream and keeps every record it had
Dispatches(n) ==
  /\ Len(messages') = Len(messages) + n
  /\ SubSeq(messages', n + 1, Len(messages')) = messages

\* The calls of onSend a send makes: one for each target it transmits to
SendDispatches(selected, content) ==
  IF content \in ArrayContents
  THEN Cardinality({i \in Targets(selected) : Accepts(i)})
  ELSE 0

\* C16: every callback of a socket (open, close, error, message), of any
\* relay and in any interleaving, adds exactly one record to the stream and
\* keeps the records it had; a send adds one record for each of its onSend
\* calls and keeps the others; the handlers of the relay list add and remove
\* nothing; clear leaves the empty stream, and a step after which a record
\* of the stream is gone or changed is a clear.
C16_StreamKeepsEveryDispatch ==
  [][/\ Dispatches(1) \/ \A ws \in 1..Len(sockets) :
          ~(\/ TransportOpen(ws) \/ TransportClose(ws) \/ TransportError(ws)
            \/ \E text \in FrameTexts : TransportMessage(ws, text))
     /\ \A selected \in {ALL} \cup RelayUrls, content \in MessageContents :
          Dispatches(SendDispatches(selected, content)) \/ ~SendMessage(selected, content)
     /\ Dispatches(0) \/ \A text \in NewRelayUrlInputs : ~AddRelay(text)
     /\ Dispatches(0) \/ \A url \in RelayUrls :
          ~(RemoveRelay(url) \/ ConnectRelay(url) \/ DisconnectRelay(url))
     /\ messages' = <<>> \/ ~ClearMessages
     /\ IsPrefixed(messages', messages) \/ ClearMessages
    ]_vars

\* the records of two relays' open events, both kept
C16_Witness ==
  /\ Len(messages) = 2
  /\ messages[1].relay # messages[2].relay
  /\ messages[1].data = ConnectionRecord("connected")
  /\ messages[2].data = ConnectionRecord("connected")
  /\ \A ws \in 1..Len(sockets) : sockets[ws].readyState = "OPEN"
  /\ Len(sockets) = 2

----------------------------------------------------------------------------
(* C17 *)

\* C17: the open event and the close event of a transport of relay A leave
\* the connection state and the handle of every other listed relay B as they
\* are; so that once the transports of two relays have opened and neither
\* has closed, both relays are connected, each with its own handle.
C17_OtherRelaysUntouched ==
  [][\A ws \in 1..Len(sockets) :
       (TransportOpen(ws) \/ TransportClose(ws)) =>
          \A b \in (Urls(relays) \cap Urls(relays')) \ {sockets[ws].url} :
             FindRelay(relays', b) = FindRelay(relays, b)
    ]_vars

----------------------------------------------------------------------------
(* C18 *)

\* C18: when removeRelay(u) returns, no transport of u is connecting or open
\* any more: every one of them has been asked to close or is closed, so that
\* after the pending close events no open event and no frame of u can follow.
C18_RemoveClosesEveryTransport ==
  [][\A u \in Urls(relays) :
       RemoveRelay(u) =>
          \A ws \in 1..Len(sockets') :
             sockets'[ws].url = u =>
                sockets'[ws].readyState \notin {"CONNECTING", "OPEN"}
    ]_vars

----------------------------------------------------------------------------
(* C19 *)

\* Socket ws has been asked to close (by disconnect, by removeRelay, or by a
\* new connect) and its close event is still to come
ClosingSocket(ws) == ws <= Len(sockets) /\ sockets[ws].readyState = "CLOSING"

\* The close event of socket ws has been delivered
ClosedSocket(ws) == ws <= Len(sockets) /\ Finished(ws)

----------------------------------------------------------------------------
(* C20 *)

\* C20: a frame delivered on a transport of relay u puts exactly one record
\* in front of the stream, received and of relay u, and changes neither the
\* relay list nor a socket; the payload of the record is the decoded value
\* when the frame is JSON (["EOSE","sub1"] for that frame) and
\* {type: "parse_error", raw: the text of the frame} when it is not; the
\* handler reports nothing.
C20_InboundFrameRecorded ==
  [][\A ws \in 1..Len(sockets), text \in FrameTexts :
       TransportMessage(ws, text) =>
          /\ Len(messages') = Len(messages) + 1
          /\ Tail(messages') = messages
          /\ Head(messages').relay = sockets[ws].url
          /\ Head(messages').type = "received"
          /\ text = FRAME_EOSE =>
               Head(messages').data = JArr(<<JStr("EOSE"), JStr("sub1")>>)
          /\ text = FRAME_GARBAGE =>
               Head(messages').data =
                 JObj(<<"type", "raw">>, <<JStr("parse_error"), JStr(FRAME_GARBAGE)>>)
          /\ toast' = NoToast
          /\ UNCHANGED <<relays, sockets>>
    ]_vars

\* a frame that is not JSON, kept in the stream behind a frame that is
C20_Witness ==
  /\ Len(messages) = 2
  /\ messages[1].data = JArr(<<JStr("EOSE"), JStr("sub1")>>)
  /\ messages[2].data =
       JObj(<<"type", "raw">>, <<JStr("parse_error"), JStr(FRAME_GARBAGE)>>)
  /\ messages[1].relay = messages[2].relay
  /\ Len(relays) = 2

----------------------------------------------------------------------------
(* C21 *)

\* C21: the badge of every record of the stream is a text, whatever the
\* payload of the record: also when the payload is a sequence whose first
\* element is a number, a keyed structure, a nested sequence, null or the
\* empty text.
C21_ClassifyReturnsText ==
  \A i \in 1..Len(messages) : Badges(messages)[i].t = "string"

----------------------------------------------------------------------------
(* C22 *)

\* The message box holds a text that is not the text of a JSON array: JSON of
\* a keyed structure, of a number or of a text, or no JSON at all
NotArrayContents == SendContents \ ArrayContents

\* C22: every record of the stream with direction sent has a sequence as its
\* payload; and a send whose message box does not hold a JSON array is
\* rejected: it reports "Invalid JSON" or "Invalid message" when a relay is
\* connected (and "No connected relays" when none is), passes no frame to
\* any socket and leaves the stream, the sockets and the relay list as they
\* are.
C22_OnlyArraysAreSent ==
  /\ [](\A i \in 1..Len(messages) :
          messages[i].type = "sent" => messages[i].data.t = "array")
  /\ [][\A selected \in {ALL} \cup RelayUrls, content \in NotArrayContents :
          SendMessage(selected, content) =>
             /\ wire' = <<>>
             /\ UNCHANGED <<messages, sockets, relays>>
             /\ IF \E i \in 1..Len(relays) : relays[i].connected
                THEN toast'.title = (IF content = CUSTOM_GARBAGE
                                     THEN "Invalid JSON" ELSE "Invalid message")
                ELSE toast'.title = "No connected relays"
       ]_vars

\* a send that was rejected for its payload while the relay is connected with
\* an open socket, after a send that went through
C22_Witness ==
  /\ toast.title = "Invalid message"
  /\ wire = <<>>
  /\ Len(relays) = 1
  /\ relays[1].connected /\ relays[1].ws # 0
  /\ sockets[relays[1].ws].readyState = "OPEN"
  /\ messages # <<>>
  /\ Head(messages).type = "sent"

====
